---- MODULE Spec2Model ----
(***************************************************************************)
(* Model of components/content/src/page.rs (gutenberg): a content page is  *)
(* parsed from a file path and its text (Page::parse), rendered            *)
(* (Page::render_markdown, Page::render_html), given previous/next         *)
(* siblings by the site's aggregation stage, and serialized for templates. *)
(*                                                                         *)
(* A Rust String / &str is a sequence of one-character strings, a Path is  *)
(* the sequence of its components, Option<T> is a sequence of length <= 1  *)
(* (None == <<>>, Some(x) == <<x>>), Vec<T> is a sequence.                 *)
(***************************************************************************)
EXTENDS Integers, Sequences, FiniteSets, TLC

VARIABLES config, unit, ret

vars == <<config, unit, ret>>

----------------------------------------------------------------------------
(* Bounds of the input sets.                                               *)

\* longest declared slug / declared path (characters)
MaxDeclLen == 3
\* most directory components below the content root
MaxDirs == 2
\* most pieces a raw body is made of
MaxPieces == 2
\* deepest nesting of previous/next siblings handed in by the aggregator
MaxDepth == 2

----------------------------------------------------------------------------
(* Option<T>                                                               *)

None == <<>>

Some(x) == <<x>>

IsSome(o) == o # <<>>

Unwrap(o) == o[1]

----------------------------------------------------------------------------
(* Strings                                                                 *)

\* all strings over alphabet A of length lo..hi
StrsOf(A, lo, hi) == UNION {[1..n -> A] : n \in lo..hi}

\* char::is_whitespace
IsWhitespace(c) == c \in {" ", "\t"}

RECURSIVE TrimLeft(_)
TrimLeft(s) ==
    IF s # <<>> /\ IsWhitespace(Head(s)) THEN TrimLeft(Tail(s)) ELSE s

RECURSIVE TrimRight(_)
TrimRight(s) ==
    IF s # <<>> /\ IsWhitespace(s[Len(s)])
    THEN TrimRight(SubSeq(s, 1, Len(s) - 1))
    ELSE s

\* str::trim: surrounding whitespace removed
Trim(s) == TrimRight(TrimLeft(s))

\* a faulty variant: every leading occurrence kept but the first
TrimLeftMatchesOnce(s, c) ==
    IF s # <<>> /\ Head(s) = c THEN Tail(s) ELSE s

\* str::trim_left_matches(c): every leading occurrence of c removed
RECURSIVE TrimLeftMatches(_, _)
TrimLeftMatches(s, c) ==
    IF s # <<>> /\ Head(s) = c THEN TrimLeftMatches(Tail(s), c) ELSE s

\* str::ends_with(c)
EndsWith(s, c) == s # <<>> /\ s[Len(s)] = c

\* str::starts_with(c)
StartsWith(s, c) == s # <<>> /\ Head(s) = c

\* [String]::join(sep)
RECURSIVE Join(_, _)
Join(ss, sep) ==
    IF ss = <<>> THEN <<>>
    ELSE IF Len(ss) = 1 THEN ss[1]
    ELSE ss[1] \o sep \o Join(Tail(ss), sep)

\* str::find(pat): the 1-based index of the first occurrence of pat, 0 if none
FindFirst(s, pat) ==
    LET hits == {i \in 1..(Len(s) - Len(pat) + 1) :
                    SubSeq(s, i, i + Len(pat) - 1) = pat}
    IN  IF hits = {} THEN 0 ELSE CHOOSE i \in hits : \A j \in hits : i <= j

\* str::contains(pat)
Contains(s, pat) == FindFirst(s, pat) # 0

LowerOf(c) ==
    CASE c = "A" -> "a"
      [] c = "B" -> "b"
      [] OTHER -> c

IsLowerOrDigit(c) == c \in {"a", "b", "c", "d", "e", "i", "m", "n", "o", "t", "x", "0", "1"}

IsUpper(c) == c \in {"A", "B"}

\* slug::slugify: ASCII letters lowercased, every other run of characters
\* becomes one '-', no leading '-', one trailing '-' removed
RECURSIVE SlugifyFrom(_, _, _)
SlugifyFrom(s, acc, prev_is_dash) ==
    IF s = <<>> THEN acc
    ELSE IF IsLowerOrDigit(Head(s))
         THEN SlugifyFrom(Tail(s), Append(acc, Head(s)), FALSE)
    ELSE IF IsUpper(Head(s))
         THEN SlugifyFrom(Tail(s), Append(acc, LowerOf(Head(s))), FALSE)
    ELSE IF prev_is_dash
         THEN SlugifyFrom(Tail(s), acc, TRUE)
    ELSE SlugifyFrom(Tail(s), Append(acc, "-"), TRUE)

slugify(s) ==
    LET string == SlugifyFrom(s, <<>>, TRUE)
    IN  IF EndsWith(string, "-") THEN SubSeq(string, 1, Len(string) - 1) ELSE string

----------------------------------------------------------------------------
(* Paths and FileInfo                                                      *)

INDEX == <<"i", "n", "d", "e", "x">>

CONTENT == <<"c", "o", "n", "t", "e", "n", "t">>

MD == <<".", "m", "d">>

DOTDOT == <<".", ".">>

\* Path::parent: None only for the empty path
PathParent(p) == IF p = <<>> THEN None ELSE Some(SubSeq(p, 1, Len(p) - 1))

\* Path::file_name: the last component when it is a normal one
PathFileName(p) ==
    IF p = <<>> \/ p[Len(p)] = DOTDOT THEN None ELSE Some(p[Len(p)])

\* Path::file_stem: the file name up to its last '.'
FileStem(p) ==
    LET name == Unwrap(PathFileName(p))
        dots == {i \in 2..Len(name) : name[i] = "."}
    IN  IF dots = {} THEN name
        ELSE SubSeq(name, 1, (CHOOSE i \in dots : \A j \in dots : j <= i) - 1)

\* the directory components that follow the "content" component
RECURSIVE ComponentsFrom(_, _)
ComponentsFrom(dirs, is_in_content) ==
    IF dirs = <<>> THEN <<>>
    ELSE IF is_in_content THEN <<Head(dirs)>> \o ComponentsFrom(Tail(dirs), TRUE)
    ELSE ComponentsFrom(Tail(dirs), Head(dirs) = CONTENT)

find_content_components(p) == ComponentsFrom(Unwrap(PathParent(p)), FALSE)

\* FileInfo::new_page: an index file's own directory is not a component
FileInfoNewPage(p) ==
    LET name == FileStem(p)
        comps == find_content_components(p)
        parent == Unwrap(PathParent(p))
        asset_folder == comps # <<>> /\ name = INDEX
    IN  [path |-> p,
         parent |-> IF asset_folder THEN Unwrap(PathParent(parent)) ELSE parent,
         name |-> name,
         components |-> IF asset_folder THEN SubSeq(comps, 1, Len(comps) - 1)
                        ELSE comps]

----------------------------------------------------------------------------
(* Config                                                                  *)

\* Config::make_permalink: base address and path joined by exactly one '/'
make_permalink(conf, path) ==
    LET base == conf.base_url
        trailing_bit == IF EndsWith(path, "/") \/ path = <<>> THEN <<>> ELSE <<"/">>
    IN  IF EndsWith(base, "/") /\ path = <<"/">> THEN base
        ELSE IF path = <<"/">> THEN base \o <<"/">>
        ELSE IF EndsWith(base, "/") /\ StartsWith(path, "/")
             THEN base \o Tail(path) \o trailing_bit
        ELSE IF EndsWith(base, "/") THEN base \o path \o trailing_bit
        ELSE IF StartsWith(path, "/") THEN base \o path \o trailing_bit
        ELSE base \o <<"/">> \o path \o trailing_bit

----------------------------------------------------------------------------
(* Page                                                                    *)

\* Page::new
PageNew(file_path, meta) ==
    [file |-> FileInfoNewPage(file_path),
     meta |-> meta,
     raw_content |-> <<>>,
     assets |-> <<>>,
     content |-> <<>>,
     slug |-> <<>>,
     path |-> <<>>,
     permalink |-> <<>>,
     summary |-> None,
     previous |-> None,
     next |-> None,
     toc |-> <<>>]

\* page.rs:91: parent.file_name().unwrap() on a parent without a normal last
\* component panics
SlugPanics(page) ==
    /\ ~IsSome(page.meta.slug)
    /\ page.file.name = INDEX
    /\ IsSome(PathParent(page.file.path))
    /\ ~IsSome(PathFileName(Unwrap(PathParent(page.file.path))))

\* a faulty variant: the declared slug is slugified like a file name
ParseSlugSlugified(page) ==
    IF IsSome(page.meta.slug) THEN slugify(Unwrap(page.meta.slug))
    ELSE IF page.file.name = INDEX /\ IsSome(PathParent(page.file.path))
         THEN slugify(Unwrap(PathFileName(Unwrap(PathParent(page.file.path)))))
    ELSE slugify(page.file.name)

\* page.rs:85-99: the value assigned to page.slug
ParseSlug(page) ==
    IF IsSome(page.meta.slug) THEN Trim(Unwrap(page.meta.slug))
    ELSE IF page.file.name = INDEX
         THEN IF IsSome(PathParent(page.file.path))
              THEN slugify(Unwrap(PathFileName(Unwrap(PathParent(page.file.path)))))
              ELSE slugify(page.file.name)
    ELSE slugify(page.file.name)

\* a faulty variant: the directory components are dropped
ParsePathSlugOnly(page) ==
    IF IsSome(page.meta.path)
    THEN TrimLeftMatches(Trim(Unwrap(page.meta.path)), "/")
    ELSE page.slug

\* a faulty variant: one leading separator stripped from the declared path
ParsePathStripOne(page) ==
    IF IsSome(page.meta.path)
    THEN TrimLeftMatchesOnce(Trim(Unwrap(page.meta.path)), "/")
    ELSE IF page.file.components = <<>> THEN page.slug
    ELSE Join(page.file.components, <<"/">>) \o <<"/">> \o page.slug

\* page.rs:101-110: the value assigned to page.path before normalisation
ParsePath(page) ==
    IF IsSome(page.meta.path)
    THEN TrimLeftMatches(Trim(Unwrap(page.meta.path)), "/")
    ELSE IF page.file.components = <<>> THEN page.slug
    ELSE Join(page.file.components, <<"/">>) \o <<"/">> \o page.slug

\* page.rs:111-113
NormalizePath(path) == IF ~EndsWith(path, "/") THEN path \o <<"/">> ELSE path

\* a faulty variant: the permalink made from the slug
ParsePermalinkFromSlug(page, conf) == make_permalink(conf, page.slug)

\* page.rs:115
ParsePermalink(page, conf) == make_permalink(conf, page.path)

\* split_page_content: the text is either malformed or a front matter and a body
SplitFails(content) == ~content.delimited

\* Page::parse, the page it returns when it returns one
PageParse(file_path, content, conf) ==
    LET p0 == [PageNew(file_path, content.meta) EXCEPT !.raw_content = content.body]
        p1 == [p0 EXCEPT !.slug = ParseSlug(p0)]
        p2 == [p1 EXCEPT !.path = NormalizePath(ParsePath(p1))]
    IN  [p2 EXCEPT !.permalink = ParsePermalink(p2, conf)]

----------------------------------------------------------------------------
(* Rendering                                                               *)

MORE == <<"<", "!", "-", "-", " ", "m", "o", "r", "e", " ", "-", "-", ">">>

\* rendering::Context::new
ContextNew(tera, conf, current_page_permalink, permalinks, insert_anchor) ==
    [tera |-> tera,
     highlight_code |-> conf.highlight_code,
     highlight_theme |-> conf.highlight_theme,
     current_page_permalink |-> current_page_permalink,
     permalinks |-> permalinks,
     insert_anchor |-> insert_anchor]

\* markdown_to_html, the HTML of a successful conversion: one block that
\* records the text converted and the context it was converted under
MdHtml(text, context) == <<[md |-> text, context |-> context]>>

\* markdown_to_html, the outline of a successful conversion: one level-1
\* header per '#' of the text, in order
MdToc(text) ==
    LET marks == SelectSeq([i \in 1..Len(text) |-> <<i, text[i]>>],
                           LAMBDA e : e[2] = "#")
    IN  [k \in 1..Len(marks) |-> [level |-> 1, id |-> k, title |-> marks[k][1]]]

\* a faulty variant: the text before the last marker
SummarySourceLast(raw_content) ==
    LET hits == {i \in 1..(Len(raw_content) - Len(MORE) + 1) :
                    SubSeq(raw_content, i, i + Len(MORE) - 1) = MORE}
        last == CHOOSE i \in hits : \A j \in hits : j <= i
    IN  SubSeq(raw_content, 1, last - 1)

\* page.rs:151: raw_content.splitn(2, "<!-- more -->")[0]
SummarySource(raw_content) ==
    SubSeq(raw_content, 1, FindFirst(raw_content, MORE) - 1)

\* Page::render_markdown, the page after the call; body_ok and summary_ok
\* say whether the two conversions succeed
RenderMarkdownPage(self, context, body_ok, summary_ok) ==
    IF ~body_ok THEN self
    ELSE LET rendered == [self EXCEPT !.content = MdHtml(self.raw_content, context),
                                      !.toc = MdToc(self.raw_content)]
         IN  IF Contains(self.raw_content, MORE) /\ summary_ok
             THEN [rendered EXCEPT
                      !.summary = Some(MdHtml(SummarySource(self.raw_content), context))]
             ELSE rendered

\* Page::render_markdown, whether the call returns Ok
RenderMarkdownOk(self, body_ok, summary_ok) ==
    body_ok /\ (Contains(self.raw_content, MORE) => summary_ok)

----------------------------------------------------------------------------
(* View projection                                                         *)

\* get_reading_analytics: the words of the text and the minutes to read them
WordCount(text) ==
    Cardinality({i \in 1..Len(text) :
                    /\ ~IsWhitespace(text[i])
                    /\ (i = 1 \/ IsWhitespace(text[i - 1]))})

get_reading_analytics(text) == <<WordCount(text), (WordCount(text) + 199) \div 200>>

\* impl Serialize for Page: Option<Box<Page>> serializes the page it holds
RECURSIVE PageSerialize(_)
PageSerialize(self) ==
    [content |-> self.content,
     title |-> self.meta.title,
     description |-> self.meta.description,
     date |-> self.meta.date,
     slug |-> self.slug,
     path |-> self.path,
     permalink |-> self.permalink,
     summary |-> self.summary,
     tags |-> self.meta.tags,
     category |-> self.meta.category,
     extra |-> self.meta.extra,
     word_count |-> get_reading_analytics(self.raw_content)[1],
     reading_time |-> get_reading_analytics(self.raw_content)[2],
     previous |-> IF IsSome(self.previous)
                  THEN Some(PageSerialize(Unwrap(self.previous))) ELSE None,
     next |-> IF IsSome(self.next)
              THEN Some(PageSerialize(Unwrap(self.next))) ELSE None,
     toc |-> self.toc]

\* Page::render_html, the template and the context handed to the engine
RenderHtmlCall(self, conf) ==
    [tpl_name |-> IF IsSome(self.meta.template) THEN Unwrap(self.meta.template)
                  ELSE <<"p", "a", "g", "e", ".", "h", "t", "m", "l">>,
     config |-> conf,
     page |-> PageSerialize(self),
     current_url |-> self.permalink,
     current_path |-> self.path,
     theme |-> conf.theme]

----------------------------------------------------------------------------
(* Inputs                                                                  *)

\* Config, as the loader leaves it: highlighting options filled in
ConfigOf(base_url) ==
    [base_url |-> base_url,
     highlight_code |-> TRUE,
     highlight_theme |-> "base16-ocean-dark",
     theme |-> None]

Configs == {ConfigOf(<<"u">>), ConfigOf(<<"u", "/">>)}

\* PageFrontMatter with a declared slug and a declared path, both optional
MetaOf(slug, path) ==
    [title |-> None, description |-> None, date |-> None, slug |-> slug,
     path |-> path, tags |-> None, category |-> None, draft |-> None,
     template |-> None, extra |-> <<>>]

\* a text without a front matter block
Malformed == [delimited |-> FALSE, meta |-> MetaOf(None, None), body |-> <<>>]

ContentOf(slug, path, body) ==
    [delimited |-> TRUE, meta |-> MetaOf(slug, path), body |-> body]

OptionOf(S) == {None} \cup {Some(x) : x \in S}

\* sequences of at most n elements of S
SeqsUpTo(S, n) == UNION {[1..k -> S] : k \in 0..n}

RECURSIVE Flatten(_)
Flatten(ss) == IF ss = <<>> THEN <<>> ELSE Head(ss) \o Flatten(Tail(ss))

\* declared slugs and paths: non-empty strings of letters, separators, blanks
DeclChars == {"a", "/", " "}

DeclaredSlugs == OptionOf(StrsOf(DeclChars, 1, MaxDeclLen - 1))

DeclaredPaths == OptionOf(StrsOf(DeclChars, 1, MaxDeclLen))

DirNames == {<<"A", " ">>, DOTDOT}

FileStems == {INDEX, <<"b">>, <<" ", "B", "!">>, <<"!">>}

\* file paths: under the content directory or not, up to MaxDirs directories
FilePaths ==
    {root \o dirs \o <<stem \o MD>> :
        root \in {<<>>, <<CONTENT>>}, dirs \in SeqsUpTo(DirNames, MaxDirs),
        stem \in FileStems}

\* the inputs of the full life cycle
SomeSlugs == {None, Some(<<" ", "a">>)}

SomePaths == {None, Some(<<"/", "a">>)}

SomeFilePaths ==
    {<<INDEX \o MD>>,
     <<CONTENT, <<"a">>, INDEX \o MD>>,
     <<CONTENT, <<"A", " ">>, <<"b">> \o MD>>}

\* raw bodies: up to MaxPieces pieces, the excerpt marker among them
Pieces == {<<"x">>, <<"#">>, MORE}

Bodies == {Flatten(ps) : ps \in SeqsUpTo(Pieces, MaxPieces)}

InsertAnchors == {"None", "Left"}

\* the site's permalinks, built before any page is rendered
Permalinks == {<<"b.md", <<"u", "/", "b", "/">>>>}

\* the pages the aggregation stage hands in as previous/next: a parsed sibling,
\* itself linked to siblings up to the given depth
RECURSIVE Siblings(_, _)
Siblings(conf, depth) ==
    IF depth = 0 THEN {}
    ELSE LET base == PageParse(<<CONTENT, <<"b">> \o MD>>,
                               ContentOf(None, None, <<"x">>), conf)
         IN  {[base EXCEPT !.previous = p, !.next = n] :
                 p \in OptionOf(Siblings(conf, depth - 1)),
                 n \in OptionOf(Siblings(conf, depth - 1))}

----------------------------------------------------------------------------
(* The state machine: one content unit from its parse on.  ret is the last *)
(* call: the operation, its arguments and what it returned.                *)

NoArgs == [none |-> TRUE]

Init ==
    /\ config \in Configs
    /\ unit = None
    /\ ret = [op |-> "none", status |-> "ok", args |-> NoArgs, value |-> None]

\* Page::parse(file_path, content, config)
ParseCall(file_path, content) ==
    /\ LET args == [file_path |-> file_path, content |-> content]
       IN  IF SplitFails(content)
           THEN /\ unit' = None
                /\ ret' = [op |-> "parse", status |-> "err", args |-> args,
                           value |-> None]
           ELSE IF SlugPanics(PageNew(file_path, content.meta))
           THEN /\ unit' = None
                /\ ret' = [op |-> "parse", status |-> "panic", args |-> args,
                           value |-> None]
           ELSE /\ unit' = Some(PageParse(file_path, content, config))
                /\ ret' = [op |-> "parse", status |-> "ok", args |-> args,
                           value |-> None]
    /\ UNCHANGED config

\* parse over the whole input sets of the identity rules
ParseAny ==
    /\ ret.op = "none"
    /\ \E file_path \in FilePaths :
        \E content \in {Malformed} \cup
                {ContentOf(s, p, <<>>) : s \in DeclaredSlugs, p \in DeclaredPaths} :
            ParseCall(file_path, content)

\* parse over the inputs of the full life cycle
Parse ==
    /\ ret.op = "none"
    /\ \E file_path \in SomeFilePaths :
        \E content \in {Malformed} \cup
                {ContentOf(s, p, b) : s \in SomeSlugs, p \in SomePaths, b \in Bodies} :
            ParseCall(file_path, content)

\* Page::render_markdown(&mut self, permalinks, tera, config, anchor_insert)
RenderMarkdown ==
    /\ IsSome(unit)
    /\ \E permalinks \in {Permalinks}, anchor_insert \in InsertAnchors,
          body_ok \in BOOLEAN, summary_ok \in BOOLEAN :
          LET self == Unwrap(unit)
              context == ContextNew("tera", config, self.permalink, permalinks,
                                    anchor_insert)
          IN  /\ unit' = Some(RenderMarkdownPage(self, context, body_ok, summary_ok))
              /\ ret' = [op |-> "render_markdown",
                         status |-> IF RenderMarkdownOk(self, body_ok, summary_ok)
                                    THEN "ok" ELSE "err",
                         args |-> [context |-> context],
                         value |-> None]
    /\ UNCHANGED config

\* Page::render_html(&self, tera, config)
RenderHtml ==
    /\ IsSome(unit)
    /\ \E template_ok \in BOOLEAN :
          ret' = [op |-> "render_html",
                  status |-> IF template_ok THEN "ok" ELSE "err",
                  args |-> NoArgs,
                  value |-> IF template_ok
                            THEN Some(RenderHtmlCall(Unwrap(unit), config))
                            ELSE Some(Unwrap(unit).file.path)]
    /\ UNCHANGED <<config, unit>>

\* Serialize::serialize(&self)
Serialize ==
    /\ IsSome(unit)
    /\ ret' = [op |-> "serialize", status |-> "ok", args |-> NoArgs,
               value |-> Some(PageSerialize(Unwrap(unit)))]
    /\ UNCHANGED <<config, unit>>

\* the aggregation stage assigns previous and next
Link ==
    /\ IsSome(unit)
    /\ \E p \in OptionOf(Siblings(config, MaxDepth)),
          n \in OptionOf(Siblings(config, MaxDepth)) :
          unit' = Some([Unwrap(unit) EXCEPT !.previous = p, !.next = n])
    /\ ret' = [op |-> "link", status |-> "ok", args |-> NoArgs, value |-> None]
    /\ UNCHANGED config

\* the life cycle of a unit: parsed, then rendered and projected in any order
Next == Parse \/ RenderMarkdown \/ RenderHtml \/ Serialize

Spec == Init /\ [][Next]_vars

\* identity resolution alone, over all file locations and declared values
NextResolve == ParseAny

\* the base address plays no part in the slug and the path: one configuration
InitResolve ==
    /\ config = ConfigOf(<<"u", "/">>)
    /\ unit = None
    /\ ret = [op |-> "none", status |-> "ok", args |-> NoArgs, value |-> None]

SpecResolve == InitResolve /\ [][NextResolve]_vars

\* a unit linked to its siblings and projected
NextView == Parse \/ Link \/ Serialize

SpecView == Init /\ [][NextView]_vars

----------------------------------------------------------------------------
(* Properties                                                              *)

\* parse returned a unit
Parsed == ret.op = "parse" /\ ret.status = "ok"

\* the text between the first and the last character that is not whitespace
TrimmedRef(s) ==
    LET keep == {i \in 1..Len(s) : ~IsWhitespace(s[i])}
    IN  IF keep = {} THEN <<>>
        ELSE SubSeq(s, CHOOSE i \in keep : \A j \in keep : i <= j,
                       CHOOSE i \in keep : \A j \in keep : j <= i)

\* the text from the first character that is not c on
WithoutLeadingRef(s, c) ==
    LET keep == {i \in 1..Len(s) : s[i] # c}
    IN  IF keep = {} THEN <<>>
        ELSE SubSeq(s, CHOOSE i \in keep : \A j \in keep : i <= j, Len(s))

\* a trailing separator appended when there is none
WithTrailingRef(s) == IF s # <<>> /\ s[Len(s)] = "/" THEN s ELSE Append(s, "/")

\* the file lies in a directory that has a name
HasNamedParent(file_path) ==
    Len(file_path) >= 2 /\ file_path[Len(file_path) - 1] # DOTDOT

\* C1: the relative path of every parsed unit does not begin with '/' and
\* ends with exactly one '/'.
C1_PathSeparators ==
    Parsed =>
        LET path == Unwrap(unit).path
        IN  /\ path # <<>>
            /\ path[1] # "/"
            /\ path[Len(path)] = "/"
            /\ ~(Len(path) >= 2 /\ path[Len(path) - 1] = "/")

\* C2: the permalink of a unit is makePermalink of its relative path, after
\* parse and after every later render_markdown, render_html and serialize.
C2_PermalinkDerived ==
    IsSome(unit) => Unwrap(unit).permalink = make_permalink(config, Unwrap(unit).path)

\* C2 happens: a unit in a directory below the content root, with a declared
\* slug, has been rendered and projected
C2_Witness ==
    /\ IsSome(unit)
    /\ Unwrap(unit).file.components # <<>>
    /\ Unwrap(unit).content # <<>>
    /\ ret.op \in {"render_html", "serialize"}
    /\ Unwrap(unit).permalink # make_permalink(config, Unwrap(unit).slug)

\* C3: the slug of a parsed unit is the declared slug trimmed and otherwise
\* verbatim; without one, for an index file in a named directory the
\* slugified directory name; otherwise the slugified file stem.
C3_SlugRule ==
    Parsed =>
        LET page == Unwrap(unit)
            file_path == ret.args.file_path
            declared == page.meta.slug
        IN  page.slug =
                IF IsSome(declared) THEN TrimmedRef(Unwrap(declared))
                ELSE IF FileStem(file_path) = INDEX /\ HasNamedParent(file_path)
                     THEN slugify(file_path[Len(file_path) - 1])
                ELSE slugify(FileStem(file_path))

\* C3 happens: an index file with a declared slug that trimming changes and
\* slugifying would change further
C3_Witness ==
    /\ Parsed
    /\ Unwrap(unit).file.name = INDEX
    /\ IsSome(Unwrap(unit).meta.slug)
    /\ Unwrap(unit).slug # Unwrap(Unwrap(unit).meta.slug)
    /\ Unwrap(unit).slug # slugify(Unwrap(Unwrap(unit).meta.slug))
    /\ Unwrap(unit).slug # <<>>

\* C4: after a successful render_markdown the summary is the conversion,
\* under the context of the call, of the text before the first excerpt
\* marker of the raw body, and None when the raw body has no marker.
C4_Summary ==
    (ret.op = "render_markdown" /\ ret.status = "ok") =>
        LET raw == Unwrap(unit).raw_content
            at == {k \in 0..(Len(raw) - Len(MORE)) : SubSeq(raw, k + 1, k + Len(MORE)) = MORE}
        IN  IF at = {} THEN Unwrap(unit).summary = None
            ELSE Unwrap(unit).summary =
                    Some(MdHtml(SubSeq(raw, 1, CHOOSE k \in at : \A j \in at : k <= j),
                                ret.args.context))

\* C4 happens: a body with two markers has been rendered
C4_Witness ==
    /\ ret.op = "render_markdown"
    /\ ret.status = "ok"
    /\ Cardinality({k \in 0..(Len(Unwrap(unit).raw_content) - Len(MORE)) :
            SubSeq(Unwrap(unit).raw_content, k + 1, k + Len(MORE)) = MORE}) >= 2
    /\ IsSome(Unwrap(unit).summary)

\* C5 as stated: a declared path is trimmed, loses one leading separator,
\* and gets a trailing separator when it has none.
C5_DeclaredPathOneSeparator ==
    (Parsed /\ IsSome(Unwrap(unit).meta.path)) =>
        LET declared == TrimmedRef(Unwrap(Unwrap(unit).meta.path))
        IN  Unwrap(unit).path =
                WithTrailingRef(IF declared # <<>> /\ declared[1] = "/"
                                THEN Tail(declared) ELSE declared)

\* C5 amended: a declared path is trimmed, loses every leading separator,
\* and gets a trailing separator when it has none; directories and slug
\* contribute nothing.
C5_DeclaredPathAllSeparators ==
    (Parsed /\ IsSome(Unwrap(unit).meta.path)) =>
        Unwrap(unit).path =
            WithTrailingRef(WithoutLeadingRef(
                TrimmedRef(Unwrap(Unwrap(unit).meta.path)), "/"))

\* C5 happens: a declared path with two leading separators, in a file with
\* directory components and a slug
C5_Witness ==
    /\ Parsed
    /\ IsSome(Unwrap(unit).meta.path)
    /\ Len(Unwrap(Unwrap(unit).meta.path)) >= 3
    /\ SubSeq(Unwrap(Unwrap(unit).meta.path), 1, 2) = <<"/", "/">>
    /\ Unwrap(unit).file.components # <<>>
    /\ Unwrap(unit).slug # <<>>
    /\ Unwrap(unit).path = <<"a", "/">>

\* C6: without a declared path the relative path is the directory
\* components and then the slug, joined by '/', with a trailing '/' when
\* there is none.
C6_DerivedPath ==
    (Parsed /\ ~IsSome(Unwrap(unit).meta.path)) =>
        Unwrap(unit).path =
            WithTrailingRef(Join(Append(Unwrap(unit).file.components,
                                        Unwrap(unit).slug), <<"/">>))

\* C6 happens: two directory components and a declared slug
C6_Witness ==
    /\ Parsed
    /\ ~IsSome(Unwrap(unit).meta.path)
    /\ Len(Unwrap(unit).file.components) >= 2
    /\ IsSome(Unwrap(unit).meta.slug)
    /\ Unwrap(unit).slug # <<>>

\* C7: the slug of every parsed unit is non-empty.
C7_SlugNonEmpty == Parsed => Unwrap(unit).slug # <<>>

\* C8: in the projection of a unit, the projections of its previous and
\* next siblings carry no previous and no next of their own.
C8_SiblingsProjectedFlat ==
    ret.op = "serialize" =>
        LET view == Unwrap(ret.value)
        IN  /\ IsSome(view.previous) =>
                  (Unwrap(view.previous).previous = None
                      /\ Unwrap(view.previous).next = None)
            /\ IsSome(view.next) =>
                  (Unwrap(view.next).previous = None /\ Unwrap(view.next).next = None)

\* C9: parse of an index file without a parent directory and without a
\* declared slug returns a unit whose slug is the slugified stem.
C9_RootIndex ==
    (/\ ret.op = "parse"
     /\ ret.args.content.delimited
     /\ ~IsSome(ret.args.content.meta.slug)
     /\ ret.args.file_path = <<INDEX \o MD>>) =>
        (ret.status = "ok" /\ IsSome(unit) /\ Unwrap(unit).slug = slugify(INDEX))

\* C10: a render_markdown that returns an error leaves the unit as it was.
C10_AllOrNothing ==
    [][(ret'.op = "render_markdown" /\ ret'.status = "err") => unit' = unit]_vars

====
